---- MODULE Spec2Model ----
(***************************************************************************)
(* Model of the transcript chunking and clip selection pipeline of the     *)
(* video clipper backend: chunkSegments, the /detect-clips handler with    *)
(* its parse chain for completion outputs, and the naming of cut files.    *)
(*                                                                         *)
(* Times are JavaScript Numbers in the source.  Here a time is an integer  *)
(* count of ticks of 1/8 second, so that the midpoint of a split clip is   *)
(* exact for the three levels of halving that the duration bounds allow    *)
(* on inputs given in whole seconds.  JavaScript array indices i are the   *)
(* sequence indices i + 1 here; findIndex's -1 is 0.                       *)
(***************************************************************************)
EXTENDS Integers, Sequences, FiniteSets, TLC

VARIABLES
    chunker,                    \* the locals of one run of chunkSegments
    dedup,                      \* the locals of the dedup loop run on its own
    extract,                    \* the locals of the parse chain run on its own
    namer,                      \* the cuts in progress and the output names given
    pc,                         \* position of the /detect-clips handler
    req,                        \* req.body of the /detect-clips request
    transcriptChunks,
    chunkIndex,                 \* index of the for-of loop over transcriptChunks
    gptLog,                     \* outcome of each completion call, in issue order
    allDetectedClipsFromChunks,
    uniqueClips,
    userDesiredCount,
    currentCandidates,
    tempClips,
    currentSplitAttempts,
    lastSplit,                  \* clipToSplit, firstHalf, secondHalf of the last split
    lastEndTime,
    finalSelectedClips,
    cutIndex,                   \* index of the for-of loop over finalSelectedClips
    cutLog,                     \* outcome of each cut, in issue order
    clipsWithDownloadUrls,
    response                    \* the response sent: status and body

vars == <<chunker, dedup, extract, namer, pc, req, transcriptChunks, chunkIndex, gptLog,
          allDetectedClipsFromChunks, uniqueClips, userDesiredCount,
          currentCandidates, tempClips, currentSplitAttempts, lastSplit,
          lastEndTime, finalSelectedClips, cutIndex, cutLog,
          clipsWithDownloadUrls, response>>

handlerVars == <<pc, req, transcriptChunks, chunkIndex, gptLog,
          allDetectedClipsFromChunks, uniqueClips, userDesiredCount,
          currentCandidates, tempClips, currentSplitAttempts, lastSplit,
          lastEndTime, finalSelectedClips, cutIndex, cutLog,
          clipsWithDownloadUrls, response>>

----------------------------------------------------------------------------
(* Numbers and arrays *)

TicksPerSecond == 8

Sec(n) == n * TicksPerSecond

Idle == "idle"

Min(a, b) == IF a <= b THEN a ELSE b

Max(a, b) == IF a >= b THEN a ELSE b

Abs(x) == IF x < 0 THEN 0 - x ELSE x

\* Array.prototype.findIndex and indexOf, given the set of indices that
\* satisfy the test: the first of them, 0 for -1
FindIndex(hits) ==
    IF hits = {} THEN 0 ELSE CHOOSE i \in hits : \A j \in hits : i <= j

\* variant of SliceTo that takes one element more (sensitivity of C6)
SliceToInclusive(s, n) == SubSeq(s, 1, Min(n + 1, Len(s)))

\* Array.prototype.slice(0, n) for an integer n >= 0
SliceTo(s, n) == SubSeq(s, 1, Min(n, Len(s)))

\* one insertion of a stable sort: index i goes before the first index whose
\* key is larger
InsertSorted(order, i, key) ==
    LET k == FindIndex({p \in 1..Len(order) : key[i] < key[order[p]]})
    IN  IF k = 0 THEN Append(order, i)
        ELSE SubSeq(order, 1, k - 1) \o <<i>> \o SubSeq(order, k, Len(order))

\* Array.prototype.sort, ascending by key[i] for s[i]: a stable sort
SortBy(s, key) ==
    LET order[i \in 0..Len(s)] ==
            IF i = 0 THEN <<>> ELSE InsertSorted(order[i - 1], i, key)
    IN  [p \in 1..Len(s) |-> s[order[Len(s)][p]]]

RECURSIVE SeqsUpTo(_, _)
SeqsUpTo(S, n) ==
    IF n = 0 THEN {<<>>}
    ELSE LET shorter == SeqsUpTo(S, n - 1)
         IN  shorter \cup {Append(q, x) : q \in {r \in shorter : Len(r) = n - 1}, x \in S}

Range(s) == {s[i] : i \in 1..Len(s)}

----------------------------------------------------------------------------
(* Text: a string is a sequence of characters *)

IsSpace(c) == c = " "

RECURSIVE TrimStart(_)
TrimStart(t) == IF t # <<>> /\ IsSpace(Head(t)) THEN TrimStart(Tail(t)) ELSE t

RECURSIVE TrimEnd(_)
TrimEnd(t) ==
    IF t # <<>> /\ IsSpace(t[Len(t)]) THEN TrimEnd(SubSeq(t, 1, Len(t) - 1)) ELSE t

\* variant of Trim that strips nothing (sensitivity of C21)
TrimNothing(t) == t

\* String.prototype.trim
Trim(t) == TrimEnd(TrimStart(t))

\* segments.map(s => s.text).join(' ')
RECURSIVE JoinText(_)
JoinText(segs) ==
    IF segs = <<>> THEN <<>>
    ELSE IF Len(segs) = 1 THEN segs[1].text
         ELSE segs[1].text \o <<" ">> \o JoinText(Tail(segs))

----------------------------------------------------------------------------
(* chunkSegments *)

Seg(s, e, t) == [start |-> Sec(s), end |-> Sec(e), text |-> t]

\* the inner while loop: advance while the segment ends below the target
RECURSIVE ScanEnd(_, _, _)
ScanEnd(segments, endSegmentIndex, chunkEndTime) ==
    IF endSegmentIndex <= Len(segments) /\ segments[endSegmentIndex].end < chunkEndTime
    THEN ScanEnd(segments, endSegmentIndex + 1, chunkEndTime)
    ELSE endSegmentIndex

\* variant of NextCursor without the forward-progress test (sensitivity of C2)
NextCursorNoProgress(foundNextIndex, currentSegmentIndex, endSegmentIndex) ==
    IF foundNextIndex = 0 THEN endSegmentIndex + 1 ELSE foundNextIndex

\* the cursor for the next iteration
NextCursor(foundNextIndex, currentSegmentIndex, endSegmentIndex) ==
    IF foundNextIndex = 0 \/ foundNextIndex <= currentSegmentIndex
    THEN endSegmentIndex + 1
    ELSE foundNextIndex

\* the index of the earliest segment starting at or after the overlap point
FoundNextIndex(segments, chunkEndTime, overlapSeconds) ==
    FindIndex({i \in 1..Len(segments) : segments[i].start >= chunkEndTime - overlapSeconds})

\* variant of CurrentChunkSegments that leaves the end segment out
\* (sensitivity of C1)
CurrentChunkSegmentsExclusive(segments, currentSegmentIndex, endSegmentIndex) ==
    SubSeq(segments, currentSegmentIndex, endSegmentIndex - 1)

\* segments.slice(currentSegmentIndex, endSegmentIndex + 1)
CurrentChunkSegments(segments, currentSegmentIndex, endSegmentIndex) ==
    SubSeq(segments, currentSegmentIndex, endSegmentIndex)

\* one iteration of the outer while loop, from the cursor c.currentSegmentIndex
ChunkIteration(c) ==
    LET segments == c.segments
        cur == c.currentSegmentIndex
        chunkStartTime == segments[cur].start
        scanned == ScanEnd(segments, cur, chunkStartTime + c.chunkSizeSeconds)
        ranOff == scanned > Len(segments)
        endSegmentIndex == IF ranOff THEN Len(segments) ELSE scanned
        broke == ranOff /\ cur > endSegmentIndex /\ Len(c.chunks) > 0
        chunkEndTime == segments[endSegmentIndex].end
        currentChunkSegments == CurrentChunkSegments(segments, cur, endSegmentIndex)
        chunkText == JoinText(currentChunkSegments)
        chunk == [text |-> chunkText,
                  segments |-> currentChunkSegments,
                  startTime |-> currentChunkSegments[1].start,
                  endTime |-> currentChunkSegments[Len(currentChunkSegments)].end]
        found == FoundNextIndex(segments, chunkEndTime, c.overlapSeconds)
    IN  IF broke
        THEN [c EXCEPT !.broke = TRUE]
        ELSE [c EXCEPT !.chunks = IF Trim(chunkText) # <<>> THEN Append(@, chunk) ELSE @,
                       !.currentSegmentIndex = NextCursor(found, cur, endSegmentIndex),
                       !.iterations = @ + 1]

ChunkerStart(segments, chunkSizeSeconds, overlapSeconds) ==
    [segments |-> segments,
     chunkSizeSeconds |-> chunkSizeSeconds,
     overlapSeconds |-> overlapSeconds,
     currentSegmentIndex |-> 1,
     chunks |-> <<>>,
     broke |-> FALSE,
     iterations |-> 0]

ChunkerDone(c) == c.broke \/ c.currentSegmentIndex > Len(c.segments)

RECURSIVE RunChunker(_)
RunChunker(c) == IF ChunkerDone(c) THEN c.chunks ELSE RunChunker(ChunkIteration(c))

chunkSegments(segments, chunkSizeSeconds, overlapSeconds) ==
    RunChunker(ChunkerStart(segments, chunkSizeSeconds, overlapSeconds))

----------------------------------------------------------------------------
(* The dedup loop of the /detect-clips handler *)

Clip(title, s, e) ==
    [title |-> title,
     description |-> "d",
     startTimeSeconds |-> Sec(s),
     endTimeSeconds |-> Sec(e),
     reason |-> "r"]

Duration(clip) == clip.endTimeSeconds - clip.startTimeSeconds

overlapThreshold == 5 * TicksPerSecond

\* the condition of the inner loop that sets isDuplicate
IsDuplicateOf(clip, existingUniqueClip) ==
    \/ Abs(clip.startTimeSeconds - existingUniqueClip.startTimeSeconds) < overlapThreshold
    \/ /\ clip.startTimeSeconds >= existingUniqueClip.startTimeSeconds
       /\ clip.endTimeSeconds <= existingUniqueClip.endTimeSeconds + overlapThreshold

\* the loop over allDetectedClipsFromChunks: the first seen of two duplicates wins
FirstSeenUnique(clips) ==
    LET unique[i \in 0..Len(clips)] ==
            IF i = 0 THEN <<>>
            ELSE LET uniqueClipsSoFar == unique[i - 1]
                 IN  IF \E k \in 1..Len(uniqueClipsSoFar) :
                            IsDuplicateOf(clips[i], uniqueClipsSoFar[k])
                     THEN uniqueClipsSoFar
                     ELSE Append(uniqueClipsSoFar, clips[i])
    IN  unique[Len(clips)]

\* variant of SortByStart that leaves the arrival order (sensitivity of C5)
SortByStartUnsorted(clips) == clips

\* clips.sort((a, b) => a.startTimeSeconds - b.startTimeSeconds)
SortByStart(clips) ==
    SortBy(clips, [i \in 1..Len(clips) |-> clips[i].startTimeSeconds])

\* uniqueClips as the handler has it after the dedup loop and the sort
DedupeClips(clips) == SortByStart(FirstSeenUnique(clips))

----------------------------------------------------------------------------
(* The /detect-clips handler: duration bounds and per-chunk extraction *)

\* desiredClipDuration of the request: absent, 20 s, 30 s, and a negative number
DesiredClipDurations ==
    {[given |-> FALSE, value |-> 0], [given |-> TRUE, value |-> Sec(20)],
     [given |-> TRUE, value |-> Sec(30)], [given |-> TRUE, value |-> 0 - Sec(20)]}

\* desiredClipDuration && typeof desiredClipDuration === 'number'
DurationGiven(body) ==
    body.desiredClipDuration.given /\ body.desiredClipDuration.value # 0

TargetMinDuration(body) ==
    IF DurationGiven(body)
    THEN Max(Sec(5), body.desiredClipDuration.value - Sec(5))
    ELSE Sec(10)

TargetMaxDuration(body) ==
    IF DurationGiven(body)
    THEN Min(body.desiredClipDuration.value + Sec(15), Sec(120))
    ELSE Sec(60)

TotalVideoDuration(segments) ==
    IF Len(segments) > 0 THEN segments[Len(segments)].end ELSE 0

\* variant of ChunkFilter without the test against the chunk's span
ChunkFilterNoChunkBounds(clip, chunk, targetMinDuration, targetMaxDuration) ==
    /\ clip.startTimeSeconds < clip.endTimeSeconds
    /\ Duration(clip) >= targetMinDuration
    /\ Duration(clip) <= targetMaxDuration

\* variant of ChunkFilter without the test against targetMaxDuration
\* (sensitivity of C26)
ChunkFilterNoMaximum(clip, chunk, targetMinDuration, targetMaxDuration) ==
    /\ clip.startTimeSeconds < clip.endTimeSeconds
    /\ Duration(clip) >= targetMinDuration
    /\ clip.startTimeSeconds >= chunk.startTime
    /\ clip.endTimeSeconds <= chunk.endTime

\* the comparisons of parsedChunkClips.filter, on a well-typed clip
ChunkFilter(clip, chunk, targetMinDuration, targetMaxDuration) ==
    /\ clip.startTimeSeconds < clip.endTimeSeconds
    /\ Duration(clip) >= targetMinDuration
    /\ Duration(clip) <= targetMaxDuration
    /\ clip.startTimeSeconds >= chunk.startTime
    /\ clip.endTimeSeconds <= chunk.endTime

----------------------------------------------------------------------------
(* JSON text and JSON values.  A completion output is a sequence of tokens:  *)
(* the punctuation of JSON, white space, a number literal "1", a string      *)
(* literal "s", the literal "null", a character "x" of prose, and "m", the   *)
(* members of an object written out ("title": ..., "reason": ...), which     *)
(* hold no bracket or brace.  A member that is absent is undefined.          *)

Undefined == [type |-> "undefined", num |-> 0, str |-> ""]

JNum(n) == [type |-> "number", num |-> n, str |-> ""]

JStr(t) == [type |-> "string", num |-> 0, str |-> t]

NoFields ==
    [title |-> Undefined, description |-> Undefined, startTimeSeconds |-> Undefined,
     endTimeSeconds |-> Undefined, reason |-> Undefined]

JsonValue(type, fields, items) == [type |-> type, fields |-> fields, items |-> items]

JsonObject(fields) == JsonValue("object", fields, <<>>)

JsonArray(items) == JsonValue("array", NoFields, items)

JsonScalar(type) == JsonValue(type, NoFields, <<>>)

\* the typeof operator
TypeOf(v) == IF v.type \in {"object", "array", "null"} THEN "object" ELSE v.type

Tok(ch) == [ch |-> ch, body |-> NoFields]

Members(fields) == [ch |-> "m", body |-> fields]

AllWhiteSpace(t, i, j) == \A k \in i..j : t[k].ch = " "

\* rawChunkOutput.trim() === ''
IsBlankText(t) == AllWhiteSpace(t, 1, Len(t))

\* the white space JSON.parse skips between tokens
RECURSIVE SkipWhiteSpace(_)
SkipWhiteSpace(t) ==
    IF t # <<>> /\ t[1].ch = " " THEN SkipWhiteSpace(Tail(t)) ELSE t

ParseFailure == [ok |-> FALSE, value |-> JsonScalar("null"), rest |-> <<>>]

Parsed(value, rest) == [ok |-> TRUE, value |-> value, rest |-> rest]

\* JSON.parse, one value from the head of the text: the value and the rest
RECURSIVE ParseValue(_)
RECURSIVE ParseElements(_, _)
ParseValue(t) ==
    LET u == SkipWhiteSpace(t)
    IN  IF u = <<>> THEN ParseFailure
        ELSE IF u[1].ch = "1" THEN Parsed(JsonScalar("number"), Tail(u))
        ELSE IF u[1].ch = "s" THEN Parsed(JsonScalar("string"), Tail(u))
        ELSE IF u[1].ch = "null" THEN Parsed(JsonScalar("null"), Tail(u))
        ELSE IF u[1].ch = "{"
             THEN LET v == SkipWhiteSpace(Tail(u))
                  IN  IF v = <<>> THEN ParseFailure
                      ELSE IF v[1].ch = "}" THEN Parsed(JsonObject(NoFields), Tail(v))
                      ELSE IF v[1].ch = "m"
                           THEN LET w == SkipWhiteSpace(Tail(v))
                                IN  IF w # <<>> /\ w[1].ch = "}"
                                    THEN Parsed(JsonObject(v[1].body), Tail(w))
                                    ELSE ParseFailure
                           ELSE ParseFailure
        ELSE IF u[1].ch = "["
             THEN LET v == SkipWhiteSpace(Tail(u))
                  IN  IF v = <<>> THEN ParseFailure
                      ELSE IF v[1].ch = "]" THEN Parsed(JsonArray(<<>>), Tail(v))
                      ELSE ParseElements(v, <<>>)
        ELSE ParseFailure

\* the elements of an array after its "[", up to and including its "]"
ParseElements(t, items) ==
    LET element == ParseValue(t)
        w == SkipWhiteSpace(element.rest)
    IN  IF ~element.ok \/ w = <<>> THEN ParseFailure
        ELSE IF w[1].ch = "]" THEN Parsed(JsonArray(Append(items, element.value)), Tail(w))
        ELSE IF w[1].ch = "," THEN ParseElements(Tail(w), Append(items, element.value))
        ELSE ParseFailure

\* JSON.parse of a whole text: one value and nothing but white space after it
JsonParse(t) ==
    LET r == ParseValue(t)
    IN  IF r.ok /\ SkipWhiteSpace(r.rest) = <<>> THEN r ELSE ParseFailure

\* a "[" followed by white space and a "{"
OpensArrayOfObjects(t, i) ==
    /\ t[i].ch = "["
    /\ \E k \in (i + 1)..Len(t) : t[k].ch = "{" /\ AllWhiteSpace(t, i + 1, k - 1)

\* a "]" at j that follows a "}" and white space, the "}" after position i + 1
ClosesArrayOfObjects(t, i, j) ==
    /\ t[j].ch = "]"
    /\ \E m \in (i + 2)..(j - 1) : t[m].ch = "}" /\ AllWhiteSpace(t, m + 1, j - 1)

\* where the match of /\[\s*\{[\s\S]*\}\s*\]/ that starts at i ends: the
\* quantifier is greedy, so at the last "]" that closes
RegexEnd(t, i) ==
    LET ends == {j \in (i + 1)..Len(t) : ClosesArrayOfObjects(t, i, j)}
    IN  IF ends = {} THEN 0 ELSE CHOOSE j \in ends : \A k \in ends : k <= j

\* rawChunkOutput.match(jsonRegex): the leftmost match, <<>> for no match
MatchJsonRegex(t) ==
    LET starts == {i \in 1..Len(t) : OpensArrayOfObjects(t, i) /\ RegexEnd(t, i) # 0}
        i == FindIndex(starts)
    IN  IF i = 0 THEN <<>> ELSE SubSeq(t, i, RegexEnd(t, i))

NullOutput == [isNull |-> TRUE, text |-> <<>>]

TextOutput(t) == [isNull |-> FALSE, text |-> t]

\* the string handed to JSON.parse: "[]" for a null or blank output, the
\* matched substring when the regex matches, the whole output otherwise
JsonString(rawChunkOutput) ==
    IF rawChunkOutput.isNull \/ IsBlankText(rawChunkOutput.text)
    THEN <<Tok("["), Tok("]")>>
    ELSE LET match == MatchJsonRegex(rawChunkOutput.text)
         IN  IF match # <<>> THEN match ELSE rawChunkOutput.text

\* parsedChunkClips after the try / catch around JSON.parse: [] when it throws
ParseOrEmpty(jsonString) ==
    LET r == JsonParse(jsonString)
    IN  IF r.ok THEN r.value ELSE JsonArray(<<>>)

\* the truthiness of a member
Truthy(member) ==
    \/ member.type = "string" /\ member.str # ""
    \/ member.type = "number" /\ member.num # 0

\* the Array.isArray test: a single object with a title is wrapped, any other
\* shape becomes []
CoerceToArray(parsed) ==
    IF parsed.type = "array" THEN parsed.items
    ELSE IF TypeOf(parsed) = "object" /\ parsed.type # "null" /\ Truthy(parsed.fields.title)
         THEN <<parsed>>
         ELSE <<>>

\* parsedChunkClips before the filter
ParsedChunkClips(rawChunkOutput) == CoerceToArray(ParseOrEmpty(JsonString(rawChunkOutput)))

\* variant of WellTyped that does not test the types of the timestamps
WellTypedStringsOnly(clip) ==
    /\ TypeOf(clip) = "object" /\ clip.type # "null"
    /\ clip.fields.title.type = "string"
    /\ clip.fields.description.type = "string"
    /\ clip.fields.reason.type = "string"

\* the typeof tests of parsedChunkClips.filter
WellTyped(clip) ==
    /\ TypeOf(clip) = "object" /\ clip.type # "null"
    /\ clip.fields.title.type = "string"
    /\ clip.fields.description.type = "string"
    /\ clip.fields.startTimeSeconds.type = "number"
    /\ clip.fields.endTimeSeconds.type = "number"
    /\ clip.fields.reason.type = "string"

\* the clip object a parsed value with these members is
ToClip(value) ==
    [title |-> value.fields.title.str,
     description |-> value.fields.description.str,
     startTimeSeconds |-> value.fields.startTimeSeconds.num,
     endTimeSeconds |-> value.fields.endTimeSeconds.num,
     reason |-> value.fields.reason.str]

\* the JSON object a clip is written as
ToJson(clip) ==
    JsonObject([title |-> JStr(clip.title),
                description |-> JStr(clip.description),
                startTimeSeconds |-> JNum(clip.startTimeSeconds),
                endTimeSeconds |-> JNum(clip.endTimeSeconds),
                reason |-> JStr(clip.reason)])

\* the text of a JSON value made of objects, arrays and scalars
RECURSIVE Stringify(_)
RECURSIVE StringifyItems(_)
Stringify(value) ==
    IF value.type = "array" THEN <<Tok("[")>> \o StringifyItems(value.items) \o <<Tok("]")>>
    ELSE IF value.type = "object"
         THEN IF value.fields = NoFields THEN <<Tok("{"), Tok("}")>>
              ELSE <<Tok("{"), Members(value.fields), Tok("}")>>
    ELSE IF value.type = "number" THEN <<Tok("1")>>
    ELSE IF value.type = "string" THEN <<Tok("s")>>
    ELSE <<Tok("null")>>

StringifyItems(items) ==
    IF items = <<>> THEN <<>>
    ELSE IF Len(items) = 1 THEN Stringify(items[1])
         ELSE Stringify(items[1]) \o <<Tok(","), Tok(" ")>> \o StringifyItems(Tail(items))

\* the clips one completion output adds to allDetectedClipsFromChunks
ExtractedClips(rawChunkOutput, chunk, body) ==
    LET kept == SelectSeq(ParsedChunkClips(rawChunkOutput),
                          LAMBDA clip : /\ WellTyped(clip)
                                        /\ ChunkFilter(ToClip(clip), chunk,
                                                       TargetMinDuration(body),
                                                       TargetMaxDuration(body)))
    IN  [i \in 1..Len(kept) |-> ToClip(kept[i])]

----------------------------------------------------------------------------
(* The /detect-clips handler: count reconciliation *)

\* variant of UserDesiredCount without the cap of 3 for aiPick
UserDesiredCountAll(body, clips) ==
    IF body.clipOption = "userChoice"
    THEN IF body.desiredClipCount.max THEN Len(clips) ELSE body.desiredClipCount.n
    ELSE Len(clips)

UserDesiredCount(body, clips) ==
    IF body.clipOption = "userChoice"
    THEN IF body.desiredClipCount.max THEN Len(clips) ELSE body.desiredClipCount.n
    ELSE Min(Len(clips), 3)

\* the duration filter applied again before selection
DurationFilter(clips, body) ==
    SelectSeq(clips, LAMBDA clip : /\ Duration(clip) >= TargetMinDuration(body)
                                /\ Duration(clip) <= TargetMaxDuration(body))

\* variant of SplittableClips that keeps the list order (sensitivity of C23)
SplittableClipsUnsorted(clips, targetMinDuration) ==
    SelectSeq(clips, LAMBDA c : 2 * Duration(c) >= 3 * targetMinDuration)

\* variant of SplittableClips without the 1.5 x threshold (sensitivity of C25)
SplittableClipsNoThreshold(clips, targetMinDuration) ==
    SortBy(clips, [i \in 1..Len(clips) |-> 0 - Duration(clips[i])])

\* tempClips.filter(...).sort(...): at least 1.5 x targetMinDuration, longest first
SplittableClips(clips, targetMinDuration) ==
    LET splittable == SelectSeq(clips, LAMBDA c : 2 * Duration(c) >= 3 * targetMinDuration)
    IN  SortBy(splittable, [i \in 1..Len(splittable) |-> 0 - Duration(splittable[i])])

\* variant of Midpoint that forgets the start time (sensitivity of C8)
MidpointWithoutStart(clipToSplit) == Duration(clipToSplit) \div 2

\* splitDuration = (end - start) / 2; midpoint = start + splitDuration
Midpoint(clipToSplit) ==
    clipToSplit.startTimeSeconds + (Duration(clipToSplit) \div 2)

FirstHalf(clipToSplit) ==
    [clipToSplit EXCEPT !.title = @ \o " (Part A)",
                        !.endTimeSeconds = Midpoint(clipToSplit),
                        !.reason = @ \o " (Split to meet count)"]

SecondHalf(clipToSplit) ==
    [clipToSplit EXCEPT !.title = @ \o " (Part B)",
                        !.startTimeSeconds = Midpoint(clipToSplit),
                        !.reason = @ \o " (Split to meet count)"]

\* variant of NewHalves that keeps the first half only
NewHalvesFirstOnly(clipToSplit, targetMinDuration) ==
    SelectSeq(<<FirstHalf(clipToSplit)>>,
           LAMBDA h : 2 * Duration(h) >= targetMinDuration)

\* the halves that are at least targetMinDuration / 2 long
NewHalves(clipToSplit, targetMinDuration) ==
    SelectSeq(<<FirstHalf(clipToSplit), SecondHalf(clipToSplit)>>,
           LAMBDA h : 2 * Duration(h) >= targetMinDuration)

\* Array.prototype.splice(originalIndex, 1, ...newHalves)
Splice(clips, originalIndex, newHalves) ==
    SubSeq(clips, 1, originalIndex - 1) \o newHalves
        \o SubSeq(clips, originalIndex + 1, Len(clips))

\* tempClips after one iteration of the split loop on clipToSplit
SplitOnce(clips, clipToSplit, targetMinDuration) ==
    LET originalIndex == FindIndex({i \in 1..Len(clips) : clips[i] = clipToSplit})
        newHalves == NewHalves(clipToSplit, targetMinDuration)
    IN  IF Len(newHalves) > 0
        THEN SortByStart(Splice(clips, originalIndex, newHalves))
        ELSE Splice(clips, originalIndex, <<>>)

\* variant of FillerClip that does not move the end to a segment's end
\* (sensitivity of C24)
FillerClipUnsnapped(clips, lastEnd, body) ==
    LET segments == body.segments
        totalVideoDuration == TotalVideoDuration(segments)
        given == body.desiredClipDuration.given
        windowEnd == IF given
                     THEN Min(lastEnd + body.desiredClipDuration.value, totalVideoDuration)
                     ELSE 0
        startIndex == IF given
                      THEN FindIndex({i \in 1..Len(segments) :
                                        /\ segments[i].start >= lastEnd
                                        /\ segments[i].start < windowEnd})
                      ELSE 0
        newClipStartTime == IF startIndex # 0 THEN segments[startIndex].start ELSE lastEnd
        newClipEndTime == IF given THEN windowEnd ELSE totalVideoDuration
    IN  IF 2 * (newClipEndTime - newClipStartTime) < TargetMinDuration(body)
        THEN <<>>
        ELSE <<[title |-> "Auto-Generated Clip " \o ToString(Len(clips) + 1),
                description |-> "Automatically generated segment from video.",
                startTimeSeconds |-> newClipStartTime,
                endTimeSeconds |-> newClipEndTime,
                reason |-> "Automatically generated to meet user's clip count request."]>>

\* one iteration of the filler loop from lastEndTime: the clip it pushes, or
\* none when the span left is below targetMinDuration / 2 and the loop breaks
FillerClip(clips, lastEnd, body) ==
    LET segments == body.segments
        totalVideoDuration == TotalVideoDuration(segments)
        given == body.desiredClipDuration.given
        \* lastEndTime + undefined is NaN, and every comparison with NaN is false
        windowEnd == IF given
                     THEN Min(lastEnd + body.desiredClipDuration.value, totalVideoDuration)
                     ELSE 0
        startIndex == IF given
                      THEN FindIndex({i \in 1..Len(segments) :
                                        /\ segments[i].start >= lastEnd
                                        /\ segments[i].start < windowEnd})
                      ELSE 0
        newClipStartTime == IF startIndex # 0 THEN segments[startIndex].start ELSE lastEnd
        endIndex == IF given
                    THEN FindIndex({i \in 1..Len(segments) : segments[i].end >= windowEnd})
                    ELSE 0
        newClipEndTime == IF Len(segments) > 0
                          THEN IF endIndex # 0 THEN segments[endIndex].end
                               ELSE totalVideoDuration
                          ELSE windowEnd
    IN  IF 2 * (newClipEndTime - newClipStartTime) < TargetMinDuration(body)
        THEN <<>>
        ELSE <<[title |-> "Auto-Generated Clip " \o ToString(Len(clips) + 1),
                description |-> "Automatically generated segment from video.",
                startTimeSeconds |-> newClipStartTime,
                endTimeSeconds |-> newClipEndTime,
                reason |-> "Automatically generated to meet user's clip count request."]>>

\* variant of FinalFilter without the totalVideoDuration test (sensitivity of C7)
FinalFilterNoCeiling(clip, totalVideoDuration) ==
    /\ clip.startTimeSeconds >= 0
    /\ clip.startTimeSeconds < clip.endTimeSeconds
    /\ Duration(clip) >= Sec(2)

\* the predicate of the final validity filter
FinalFilter(clip, totalVideoDuration) ==
    /\ clip.startTimeSeconds >= 0
    /\ clip.endTimeSeconds <= totalVideoDuration
    /\ clip.startTimeSeconds < clip.endTimeSeconds
    /\ Duration(clip) >= Sec(2)

----------------------------------------------------------------------------
(* chunkSegments run on its own, one iteration of its loop per step *)

MaxSegs == 3

Word == <<"a">>

Blank == <<" ">>

SegmentPool ==
    {Seg(0, 175, Word), Seg(0, 200, Word), Seg(10, 50, Word), Seg(10, 50, Blank),
     Seg(175, 190, Word), Seg(190, 200, Word), Seg(190, 200, <<>>),
     Seg(200, 390, Word), Seg(50, 60, Word)}

\* <<chunkSizeSeconds, overlapSeconds>>: the handler's call, the defaults, and others
ChunkParams ==
    {<<Sec(180), Sec(20)>>, <<Sec(180), Sec(10)>>, <<0, 0>>,
     <<Sec(20), Sec(180)>>, <<Sec(180), 0 - Sec(20)>>}

\* the handler's variables while no request is being handled
HandlerIdle ==
    /\ pc = Idle /\ req = <<>> /\ transcriptChunks = <<>> /\ chunkIndex = 0
    /\ gptLog = <<>> /\ allDetectedClipsFromChunks = <<>> /\ uniqueClips = <<>>
    /\ userDesiredCount = 0 /\ currentCandidates = <<>> /\ tempClips = <<>>
    /\ currentSplitAttempts = 0 /\ lastSplit = <<>> /\ lastEndTime = 0
    /\ finalSelectedClips = <<>> /\ cutIndex = 0 /\ cutLog = <<>>
    /\ clipsWithDownloadUrls = <<>> /\ response = <<>>

ChunkerIdle == ChunkerStart(<<>>, 0, 0)

DedupIdle == <<>>

ExtractIdle == <<>>

NamerIdle == <<>>

InitChunk ==
    /\ \E segments \in SeqsUpTo(SegmentPool, MaxSegs), p \in ChunkParams :
          chunker = ChunkerStart(segments, p[1], p[2])
    /\ dedup = DedupIdle
    /\ extract = ExtractIdle
    /\ namer = NamerIdle
    /\ HandlerIdle

\* the body of the while loop, entered while the cursor is inside the array
ChunkStep ==
    /\ ~ChunkerDone(chunker)
    /\ chunker.iterations <= Len(chunker.segments)
    /\ chunker' = ChunkIteration(chunker)
    /\ UNCHANGED <<dedup, extract, namer, handlerVars>>

NextChunk == ChunkStep

SpecChunk == InitChunk /\ [][NextChunk]_vars

OrderedByStart(segments) ==
    \A i \in 1..(Len(segments) - 1) : segments[i].start <= segments[i + 1].start

AllPositiveLength(segments) ==
    \A i \in 1..Len(segments) : segments[i].end > segments[i].start

Covered(c, i) ==
    \E k \in 1..Len(c.chunks) : c.segments[i] \in Range(c.chunks[k].segments)

HandlerCall(c) == c.chunkSizeSeconds = Sec(180) /\ c.overlapSeconds = Sec(20)

\* C1 as stated: after chunkSegments(segments, 180, 20) on a non-empty list
\* ordered by start with end > start, every segment is in some emitted chunk,
\* whatever the texts and however the segments overlap.
C1_CoverageAsStated ==
    (/\ ChunkerDone(chunker)
     /\ HandlerCall(chunker)
     /\ chunker.segments # <<>>
     /\ OrderedByStart(chunker.segments)
     /\ AllPositiveLength(chunker.segments))
    => \A i \in 1..Len(chunker.segments) : Covered(chunker, i)

AllTextNonBlank(segments) ==
    \A i \in 1..Len(segments) : Trim(segments[i].text) # <<>>

OverlapWithin(segments, overlapSeconds) ==
    \A i \in 1..(Len(segments) - 1) :
        segments[i + 1].start >= segments[i].end - overlapSeconds

\* C1 (amended): after chunkSegments(segments, 180, 20) on a non-empty list
\* ordered by start with end > start, in which every text is non-blank and no
\* segment starts more than 20 s before its predecessor's end, every segment
\* is in some emitted chunk.
C1_Coverage ==
    (/\ ChunkerDone(chunker)
     /\ HandlerCall(chunker)
     /\ chunker.segments # <<>>
     /\ OrderedByStart(chunker.segments)
     /\ AllPositiveLength(chunker.segments)
     /\ AllTextNonBlank(chunker.segments)
     /\ OverlapWithin(chunker.segments, chunker.overlapSeconds))
    => \A i \in 1..Len(chunker.segments) : Covered(chunker, i)

\* a finished run on three non-blank, suitably ordered segments that took
\* several windows, two of them sharing a segment
C1_Witness ==
    /\ ChunkerDone(chunker)
    /\ HandlerCall(chunker)
    /\ Len(chunker.segments) = 3
    /\ OrderedByStart(chunker.segments)
    /\ AllPositiveLength(chunker.segments)
    /\ AllTextNonBlank(chunker.segments)
    /\ OverlapWithin(chunker.segments, chunker.overlapSeconds)
    /\ Len(chunker.chunks) >= 2
    /\ chunker.chunks[1].segments[Len(chunker.chunks[1].segments)]
         = chunker.chunks[2].segments[1]

\* C2: every iteration of the outer loop strictly increases the cursor, so
\* for any segments, window and overlap the loop runs at most segments.length
\* times and emits at most segments.length chunks.
C2_Termination ==
    /\ [][chunker' # chunker
            => chunker'.currentSegmentIndex > chunker.currentSegmentIndex]_vars
    /\ [](/\ chunker.iterations <= Len(chunker.segments)
          /\ Len(chunker.chunks) <= Len(chunker.segments)
          /\ ~chunker.broke)

\* a run that needed as many iterations as there are segments, where the
\* overlap point did not advance the cursor (overlap larger than the window)
C2_Witness ==
    /\ ChunkerDone(chunker)
    /\ Len(chunker.segments) >= 3
    /\ chunker.iterations = Len(chunker.segments)
    /\ Len(chunker.chunks) = Len(chunker.segments)
    /\ chunker.overlapSeconds > chunker.chunkSizeSeconds

\* a text made of white space only (the empty text included)
OnlySpaces(t) == \A i \in 1..Len(t) : t[i] = " "

\* the last index of the window opened at cursor i: the first segment from i
\* on that ends at or after the target, the final segment when there is none
WindowEnd(segments, i, windowSeconds) ==
    LET reaching == {k \in i..Len(segments) :
                        segments[k].end >= segments[i].start + windowSeconds}
    IN  IF reaching = {} THEN Len(segments)
        ELSE CHOOSE k \in reaching : \A other \in reaching : k <= other

\* the window opened at the cursor of c holds no text but white space
BlankWindow(c) ==
    LET i == c.currentSegmentIndex
    IN  \A k \in i..WindowEnd(c.segments, i, c.chunkSizeSeconds) :
            OnlySpaces(c.segments[k].text)

\* C21: every emitted chunk has a text with something besides white space and
\* a non-empty segments list that is a contiguous run of the input, starting
\* at its first segment's start and ending at its last segment's end; an
\* iteration whose window is blank emits no chunk, any other emits one.
C21_ChunkNonEmpty ==
    /\ [](\A k \in 1..Len(chunker.chunks) :
            LET chunk == chunker.chunks[k]
            IN  /\ ~OnlySpaces(chunk.text)
                /\ chunk.segments # <<>>
                /\ \E a \in 1..Len(chunker.segments), b \in 1..Len(chunker.segments) :
                      a <= b /\ chunk.segments = SubSeq(chunker.segments, a, b)
                /\ chunk.startTime = chunk.segments[1].start
                /\ chunk.endTime = chunk.segments[Len(chunk.segments)].end)
    /\ [][chunker' # chunker
            => IF BlankWindow(chunker)
               THEN chunker'.chunks = chunker.chunks
               ELSE Len(chunker'.chunks) = Len(chunker.chunks) + 1]_vars

\* a finished run that skipped a blank window and emitted a later one
C21_Witness ==
    /\ ChunkerDone(chunker)
    /\ Len(chunker.chunks) >= 1
    /\ chunker.iterations > Len(chunker.chunks)
    /\ \E i \in 1..Len(chunker.segments) :
          /\ chunker.segments[i].text # <<>>
          /\ OnlySpaces(chunker.segments[i].text)
          /\ ~Covered(chunker, i)

\* no segment ends at or after the first segment's start plus the window
SpanBelowWindow(c) ==
    \A k \in 1..Len(c.segments) :
        c.segments[k].end < c.segments[1].start + c.chunkSizeSeconds

\* C22: the last segment of every chunk is the first one, from the chunk's
\* first segment on, that ends at or after the chunk's start plus the window
\* (the final input segment when none does), so every other segment of the
\* chunk ends strictly before that target; a single segment longer than the
\* window is a chunk by itself; and input with non-blank texts whose span is
\* below the window yields exactly one chunk, holding all segments.
C22_WindowEndRule ==
    /\ \A k \in 1..Len(chunker.chunks) :
          LET segs == chunker.chunks[k].segments
              target == segs[1].start + chunker.chunkSizeSeconds
          IN  /\ \A j \in 1..(Len(segs) - 1) : segs[j].end < target
              /\ \/ segs[Len(segs)].end >= target
                 \/ segs[Len(segs)] = chunker.segments[Len(chunker.segments)]
              /\ segs[1].end >= target => Len(segs) = 1
    /\ (/\ ChunkerDone(chunker)
        /\ chunker.segments # <<>>
        /\ OrderedByStart(chunker.segments)
        /\ AllPositiveLength(chunker.segments)
        /\ AllTextNonBlank(chunker.segments)
        /\ SpanBelowWindow(chunker))
       => /\ Len(chunker.chunks) = 1
          /\ chunker.chunks[1].segments = chunker.segments

\* each segment ends before or when the next one starts
NonOverlapping(segments) ==
    \A i \in 1..(Len(segments) - 1) : segments[i].end <= segments[i + 1].start

\* C29: after chunkSegments(segments, 180, 20) on segments ordered by start,
\* of positive length and not overlapping in time, every chunk after the first
\* holds at least one segment that the chunk before it does not hold.
C29_NewSegmentPerChunk ==
    (/\ HandlerCall(chunker)
     /\ OrderedByStart(chunker.segments)
     /\ AllPositiveLength(chunker.segments)
     /\ NonOverlapping(chunker.segments))
    => \A k \in 2..Len(chunker.chunks) :
          \E j \in 1..Len(chunker.chunks[k].segments) :
              chunker.chunks[k].segments[j] \notin Range(chunker.chunks[k - 1].segments)

----------------------------------------------------------------------------
(* The dedup step run on its own, and run again on its own output *)

MaxCands == 3

ClipPool ==
    {Clip("A", 0, 30), Clip("B", 10, 20), Clip("C", 3, 25), Clip("D", 10, 40),
     Clip("E", 30, 40), Clip("F", 0, 10), Clip("G", 12, 50), Clip("H", 34, 60)}

InitDedup ==
    /\ \E candidates \in SeqsUpTo(ClipPool, MaxCands) :
          dedup = [stage |-> "start", candidates |-> candidates,
                   uniqueClips |-> <<>>, again |-> <<>>]
    /\ chunker = ChunkerIdle
    /\ extract = ExtractIdle
    /\ namer = NamerIdle
    /\ HandlerIdle

\* the dedup loop and the sort, on the candidates in arrival order
DedupOnce ==
    /\ dedup.stage = "start"
    /\ dedup' = [dedup EXCEPT !.stage = "once",
                              !.uniqueClips = DedupeClips(dedup.candidates)]
    /\ UNCHANGED <<chunker, extract, namer, handlerVars>>

\* the same step applied to its own output
DedupTwice ==
    /\ dedup.stage = "once"
    /\ dedup' = [dedup EXCEPT !.stage = "twice",
                              !.again = DedupeClips(dedup.uniqueClips)]
    /\ UNCHANGED <<chunker, extract, namer, handlerVars>>

NextDedup == DedupOnce \/ DedupTwice

SpecDedup == InitDedup /\ [][NextDedup]_vars

\* C3: the dedup step run on its own output returns the same clips.
C3_Idempotent ==
    dedup.stage = "twice" => dedup.again = dedup.uniqueClips

\* C4: no clip of the dedup output is a duplicate of another clip of the
\* output, in either direction.
C4_PairwiseNonDuplicate ==
    dedup.stage = "once" =>
        \A i, j \in 1..Len(dedup.uniqueClips) :
            i # j => ~IsDuplicateOf(dedup.uniqueClips[i], dedup.uniqueClips[j])

\* C5: the dedup output is sorted ascending by start and no two of its
\* clips start less than 5 seconds apart, whatever the arrival order.
C5_SortedAndSpaced ==
    dedup.stage = "once" =>
        LET u == dedup.uniqueClips
        IN  /\ \A i \in 1..(Len(u) - 1) : u[i].startTimeSeconds <= u[i + 1].startTimeSeconds
            /\ \A i, j \in 1..Len(u) :
                   i # j => Abs(u[i].startTimeSeconds - u[j].startTimeSeconds) >= overlapThreshold

\* three candidates that arrived out of start order, of which two survived
\* and one was dropped
C5_Witness ==
    /\ dedup.stage = "once"
    /\ Len(dedup.candidates) = 3
    /\ Len(dedup.uniqueClips) = 2
    /\ dedup.candidates[1].startTimeSeconds > dedup.candidates[3].startTimeSeconds
    /\ dedup.candidates[1] \in Range(dedup.uniqueClips)
    /\ dedup.candidates[3] \in Range(dedup.uniqueClips)

----------------------------------------------------------------------------
(* The parse chain of one completion output run on its own, one step at a   *)
(* time: the text handed to JSON.parse, the parse, the Array.isArray test   *)
(* and the filter                                                           *)

MaxItems == 2

ClipX == Clip("X", 1, 20)

\* what the model may put in an array: clips, a clip that ends before it
\* starts, a clip whose startTimeSeconds is a string, a clip without a title,
\* a number and null
ElementPool ==
    {ToJson(ClipX), ToJson(Clip("B", 10, 20)), ToJson(Clip("R", 20, 10)),
     JsonObject([ToJson(ClipX).fields EXCEPT !.startTimeSeconds = JStr("1")]),
     JsonObject([ToJson(ClipX).fields EXCEPT !.title = Undefined]),
     JsonScalar("number"), JsonScalar("null")}

\* the JSON part of an output: an array, a single clip object, an object with
\* a title and nothing else, an empty object, scalars, prose, an array cut
\* short, nothing
Middles ==
    {Stringify(JsonArray(items)) : items \in SeqsUpTo(ElementPool, MaxItems)}
        \cup {Stringify(ToJson(ClipX)),
              Stringify(JsonObject([NoFields EXCEPT !.title = JStr("X")])),
              Stringify(JsonObject(NoFields)),
              <<Tok("1")>>, <<Tok("null")>>, <<Tok("s")>>, <<Tok("x")>>,
              SubSeq(Stringify(JsonArray(<<ToJson(ClipX)>>)), 1, 3),
              <<>>}

\* what precedes it: nothing, prose, the opening of a wrapping object, white
\* space, an array of numbers
Befores ==
    {<<>>, <<Tok("x"), Tok(" ")>>, <<Tok("{"), Tok("x")>>, <<Tok(" ")>>,
     <<Tok("["), Tok("1"), Tok("]"), Tok(" ")>>}

\* what follows it: nothing, prose, a closing brace, a second array of
\* objects, a closing bracket
Afters ==
    {<<>>, <<Tok(" "), Tok("x")>>, <<Tok("}")>>,
     <<Tok(" ")>> \o Stringify(JsonArray(<<ToJson(Clip("B", 10, 20))>>)),
     <<Tok("]")>>}

ExtractChunks ==
    {[startTime |-> 0, endTime |-> Sec(30)], [startTime |-> Sec(5), endTime |-> Sec(60)]}

ExtractStart(rawChunkOutput, before, middle, after, chunk, body) ==
    [stage |-> "raw",
     rawChunkOutput |-> rawChunkOutput,
     before |-> before, middle |-> middle, after |-> after,
     chunk |-> chunk,
     body |-> body,
     jsonString |-> <<>>,
     parsedChunkClips |-> JsonArray(<<>>),
     kept |-> <<>>,
     pushed |-> <<>>]

InitExtract ==
    /\ \E d \in DesiredClipDurations, chunk \in ExtractChunks :
          \/ extract = ExtractStart(NullOutput, <<>>, <<>>, <<>>, chunk,
                                    [desiredClipDuration |-> d])
          \/ \E before \in Befores, middle \in Middles, after \in Afters :
                extract = ExtractStart(TextOutput(before \o middle \o after),
                                       before, middle, after, chunk,
                                       [desiredClipDuration |-> d])
    /\ chunker = ChunkerIdle
    /\ dedup = DedupIdle
    /\ namer = NamerIdle
    /\ HandlerIdle

\* the null / blank test and the regex match
LocateJson ==
    /\ extract.stage = "raw"
    /\ extract' = [extract EXCEPT !.stage = "located",
                                  !.jsonString = JsonString(extract.rawChunkOutput)]
    /\ UNCHANGED <<chunker, dedup, namer, handlerVars>>

\* JSON.parse inside its try / catch
ParseJson ==
    /\ extract.stage = "located"
    /\ extract' = [extract EXCEPT !.stage = "parsed",
                                  !.parsedChunkClips = ParseOrEmpty(extract.jsonString)]
    /\ UNCHANGED <<chunker, dedup, namer, handlerVars>>

\* the Array.isArray test: parsedChunkClips is an array from here on
CoerceShape ==
    /\ extract.stage = "parsed"
    /\ extract' = [extract EXCEPT !.stage = "coerced",
                                  !.parsedChunkClips =
                                       JsonArray(CoerceToArray(extract.parsedChunkClips))]
    /\ UNCHANGED <<chunker, dedup, namer, handlerVars>>

\* the filter and the push
FilterAndPush ==
    /\ extract.stage = "coerced"
    /\ LET kept == SelectSeq(extract.parsedChunkClips.items,
                             LAMBDA clip : /\ WellTyped(clip)
                                           /\ ChunkFilter(ToClip(clip), extract.chunk,
                                                          TargetMinDuration(extract.body),
                                                          TargetMaxDuration(extract.body)))
       IN  extract' = [extract EXCEPT !.stage = "pushed",
                                      !.kept = kept,
                                      !.pushed = [i \in 1..Len(kept) |-> ToClip(kept[i])]]
    /\ UNCHANGED <<chunker, dedup, namer, handlerVars>>

NextExtract == LocateJson \/ ParseJson \/ CoerceShape \/ FilterAndPush

SpecExtract == InitExtract /\ [][NextExtract]_vars

\* the steps taken one by one give what the handler pushes for the output
ExtractSteps ==
    extract.stage = "pushed" =>
        extract.pushed = ExtractedClips(extract.rawChunkOutput, extract.chunk, extract.body)

\* an object whose title, description and reason are strings and whose
\* timestamps are numbers
IsClipObject(value) ==
    /\ value.type = "object"
    /\ \A f \in {"title", "description", "reason"} : value.fields[f].type = "string"
    /\ \A f \in {"startTimeSeconds", "endTimeSeconds"} : value.fields[f].type = "number"

\* C11: whatever the completion output (null, blank, text that does not
\* parse, a scalar, null, an object that is not a clip, an array with
\* elements that are not clips), the chain ends, what it keeps are well-typed
\* clip objects only, and it keeps nothing when the text handed to the parser
\* does not parse or parses to something that is neither an array nor a clip
\* object.
C11_MalformedOutput ==
    extract.stage = "pushed" =>
        LET r == JsonParse(extract.jsonString)
        IN  /\ \A i \in 1..Len(extract.kept) : IsClipObject(extract.kept[i])
            /\ Len(extract.pushed) = Len(extract.kept)
            /\ ~r.ok => extract.pushed = <<>>
            /\ (r.ok /\ r.value.type # "array" /\ ~IsClipObject(r.value))
                  => extract.pushed = <<>>

\* prose, then an array of a clip whose startTimeSeconds is a string and
\* null: nothing was kept
C11_Witness ==
    /\ extract.stage = "pushed"
    /\ Len(extract.parsedChunkClips.items) = 2
    /\ extract.parsedChunkClips.items[1].fields.startTimeSeconds.type = "string"
    /\ extract.parsedChunkClips.items[2] = JsonScalar("null")
    /\ extract.before # <<>>
    /\ extract.kept = <<>>

\* the duration bounds as the request's desired duration D gives them
BoundsMin(body) ==
    IF body.desiredClipDuration.given
    THEN Max(Sec(5), body.desiredClipDuration.value - Sec(5))
    ELSE Sec(10)

BoundsMax(body) ==
    IF body.desiredClipDuration.given
    THEN Min(Sec(120), body.desiredClipDuration.value + Sec(15))
    ELSE Sec(60)

ValidCandidate(value, chunk, body) ==
    /\ IsClipObject(value)
    /\ LET s == value.fields.startTimeSeconds.num
           e == value.fields.endTimeSeconds.num
       IN  /\ s < e
           /\ BoundsMin(body) <= e - s
           /\ e - s <= BoundsMax(body)
           /\ chunk.startTime <= s
           /\ e <= chunk.endTime

\* C12: the entries pushed for a chunk are exactly the parsed entries that
\* are well typed, start before they end, last between targetMinDuration and
\* targetMaxDuration and lie within the chunk's span, in their order; every
\* other parsed entry is dropped.
C12_ValidityFilter ==
    extract.stage = "pushed" =>
        /\ \A i \in 1..Len(extract.kept) :
               ValidCandidate(extract.kept[i], extract.chunk, extract.body)
        /\ extract.kept =
               SelectSeq(extract.parsedChunkClips.items,
                         LAMBDA v : ValidCandidate(v, extract.chunk, extract.body))
        /\ extract.pushed = [i \in 1..Len(extract.kept) |-> ToClip(extract.kept[i])]

\* of the clips X = [1, 20] and B = [10, 20], parsed for the chunk [5, 60],
\* X starts before the chunk and was dropped, B was pushed
C12_Witness ==
    /\ extract.stage = "pushed"
    /\ extract.chunk.startTime = Sec(5)
    /\ extract.parsedChunkClips.items = <<ToJson(ClipX), ToJson(Clip("B", 10, 20))>>
    /\ extract.pushed = <<Clip("B", 10, 20)>>

\* the middle part of the output is a well-formed JSON array of objects
MiddleIsArrayOfObjects ==
    LET r == JsonParse(extract.middle)
    IN  /\ r.ok
        /\ r.value.type = "array"
        /\ r.value.items # <<>>
        /\ \A i \in 1..Len(r.value.items) : r.value.items[i].type = "object"

\* C13: when a non-blank output holds a well-formed JSON array of objects,
\* the first in the text, with any text before and after it, the entries
\* pushed are exactly the entries of that array that pass the validity filter.
C13_ArraySubstring ==
    (/\ extract.stage = "pushed"
     /\ ~extract.rawChunkOutput.isNull
     /\ MiddleIsArrayOfObjects
     /\ MatchJsonRegex(extract.before) = <<>>)
    => extract.kept =
           SelectSeq(JsonParse(extract.middle).value.items,
                     LAMBDA v : ValidCandidate(v, extract.chunk, extract.body))

----------------------------------------------------------------------------
(* Output file names: a /detect-clips batch and a /cut-clip request served  *)
(* by the same process, each naming its output after the sanitized title    *)
(* and Date.now()                                                           *)

MaxBatch == 2

MaxClock == 2

\* the characters of [a-zA-Z0-9.\-_] among those the titles are written in
SafeChars == {"a", "b", "A", "B", "1", ".", "-", "_"}

\* replace(/[^a-zA-Z0-9.\-_]/g, '-')
ReplaceUnsafe(title) ==
    [i \in 1..Len(title) |-> IF title[i] \in SafeChars THEN title[i] ELSE "-"]

\* replace(/-+/g, '-')
RECURSIVE CollapseDashes(_)
CollapseDashes(t) ==
    IF Len(t) < 2 THEN t
    ELSE IF t[1] = "-" /\ t[2] = "-" THEN CollapseDashes(Tail(t))
         ELSE <<t[1]>> \o CollapseDashes(Tail(t))

\* toLowerCase()
ToLowerCase(t) ==
    [i \in 1..Len(t) |-> IF t[i] = "A" THEN "a" ELSE IF t[i] = "B" THEN "b" ELSE t[i]]

SanitizedTitle(title) == ToLowerCase(CollapseDashes(ReplaceUnsafe(title)))

\* `${sanitizedTitle}_clip_${Date.now()}.mp4`
OutputFileName(title, now) == [sanitizedTitle |-> SanitizedTitle(title), stamp |-> now]

Titles ==
    {<<"A", "b">>, <<"a", "b">>, <<"a", " ", "b">>, <<"a", "-", "b">>,
     <<"a", "!", " ", "b">>, <<"b", "1">>}

NamerStart(batchTitles, clipTitle) ==
    [now |-> 0,
     batchTitles |-> batchTitles,       \* titles of finalSelectedClips
     batchIndex |-> 1,
     batchCutting |-> FALSE,
     batchCutStartedAt |-> 0,
     clipTitle |-> clipTitle,           \* clipTitle of the /cut-clip request
     clipState |-> "received",
     cuts |-> <<>>]                     \* the cuts started, with their names

InitNames ==
    /\ \E batchTitles \in SeqsUpTo(Titles, MaxBatch), clipTitle \in Titles :
          namer = NamerStart(batchTitles, clipTitle)
    /\ chunker = ChunkerIdle
    /\ dedup = DedupIdle
    /\ extract = ExtractIdle
    /\ HandlerIdle

\* a millisecond passes
Tick ==
    /\ namer.now < MaxClock
    /\ namer' = [namer EXCEPT !.now = @ + 1]
    /\ UNCHANGED <<chunker, dedup, extract, handlerVars>>

\* the batch loop names the output of its next clip and starts the cutter
BatchCutStarts ==
    /\ namer.batchIndex <= Len(namer.batchTitles)
    /\ ~namer.batchCutting
    /\ namer' = [namer EXCEPT
                   !.batchCutting = TRUE,
                   !.batchCutStartedAt = namer.now,
                   !.cuts = Append(@, [request |-> "detect-clips",
                                       outputFileName |->
                                           OutputFileName(namer.batchTitles[namer.batchIndex],
                                                          namer.now)])]
    /\ UNCHANGED <<chunker, dedup, extract, handlerVars>>

\* the cutter of the batch's current clip ends, with or without an error: a
\* run of the cutter takes longer than the clock's resolution
BatchCutEnds ==
    /\ namer.batchCutting
    /\ namer.now > namer.batchCutStartedAt
    /\ namer' = [namer EXCEPT !.batchCutting = FALSE, !.batchIndex = @ + 1]
    /\ UNCHANGED <<chunker, dedup, extract, handlerVars>>

\* the /cut-clip handler names its output and starts the cutter
CutClipStarts ==
    /\ namer.clipState = "received"
    /\ namer' = [namer EXCEPT
                   !.clipState = "cutting",
                   !.cuts = Append(@, [request |-> "cut-clip",
                                       outputFileName |->
                                           OutputFileName(namer.clipTitle, namer.now)])]
    /\ UNCHANGED <<chunker, dedup, extract, handlerVars>>

\* the cutter of the /cut-clip request ends and the request is answered
CutClipEnds ==
    /\ namer.clipState = "cutting"
    /\ namer' = [namer EXCEPT !.clipState = "done"]
    /\ UNCHANGED <<chunker, dedup, extract, handlerVars>>

NextNames == Tick \/ BatchCutStarts \/ BatchCutEnds \/ CutClipStarts \/ CutClipEnds

SpecNames == InitNames /\ [][NextNames]_vars

\* C16: any two cuts, of one batch or of requests served at the same time,
\* are given different output file names.
C16_DistinctNames ==
    \A i, j \in 1..Len(namer.cuts) :
        i # j => namer.cuts[i].outputFileName # namer.cuts[j].outputFileName

----------------------------------------------------------------------------
(* One /detect-clips request *)

MaxCount == 3

MaxResp == 2

\* transcripts: none; one window; three windows; and one whose first segment
\* ends after the last one does
SegmentLayouts ==
    {<<>>,
     <<Seg(0, 20, Word), Seg(20, 60, Word)>>,
     <<Seg(0, 90, Word), Seg(90, 180, Word), Seg(180, 360, Word), Seg(360, 540, Word)>>,
     <<Seg(0, 200, Word), Seg(10, 50, Word)>>}

\* the clips the completion model may propose: adjacent ones, one that
\* contains another and is longer, and one in each later window
ProposalPool ==
    {Clip("A", 0, 30), Clip("B", 30, 60), Clip("C", 25, 62), Clip("E", 200, 230),
     Clip("F", 400, 430)}

\* the text of a completion that introduces a JSON array of these clips
ProseThenArray(clips) ==
    <<Tok("x"), Tok(" ")>> \o Stringify(JsonArray([i \in 1..Len(clips) |-> ToJson(clips[i])]))

\* rawChunkOutput: null or undefined, blank, text that is not JSON, or text
\* that holds a JSON array of clip objects
RawChunkOutputs ==
    {NullOutput, TextOutput(<<Tok(" ")>>), TextOutput(<<Tok("x")>>)}
        \cup {TextOutput(ProseThenArray(items)) : items \in SeqsUpTo(ProposalPool, MaxResp)}

DesiredClipCounts ==
    {[max |-> TRUE, n |-> 0]} \cup {[max |-> FALSE, n |-> n] : n \in 0..MaxCount}

RequestBodies ==
    {body \in [segments : SegmentLayouts,
               hasText : BOOLEAN,
               videoFileExists : BOOLEAN,
               clipOption : {"aiPick", "userChoice"},
               desiredClipCount : DesiredClipCounts,
               desiredClipDuration : DesiredClipDurations] :
        \* the client sends its default count of 3 with aiPick
        body.clipOption = "aiPick" => body.desiredClipCount = [max |-> FALSE, n |-> 3]}

Init ==
    /\ chunker = ChunkerIdle
    /\ dedup = DedupIdle
    /\ extract = ExtractIdle
    /\ namer = NamerIdle
    /\ pc = "received"
    /\ req \in RequestBodies
    /\ transcriptChunks = <<>>
    /\ chunkIndex = 0
    /\ gptLog = <<>>
    /\ allDetectedClipsFromChunks = <<>>
    /\ uniqueClips = <<>>
    /\ userDesiredCount = 0
    /\ currentCandidates = <<>>
    /\ tempClips = <<>>
    /\ currentSplitAttempts = 0
    /\ lastSplit = <<>>
    /\ lastEndTime = 0
    /\ finalSelectedClips = <<>>
    /\ cutIndex = 0
    /\ cutLog = <<>>
    /\ clipsWithDownloadUrls = <<>>
    /\ response = <<>>

Respond(status, clips) == <<[status |-> status, clips |-> clips]>>

\* no transcript text: 400
RejectNoTranscript ==
    /\ pc = "received"
    /\ ~req.hasText
    /\ response' = Respond(400, <<>>)
    /\ pc' = "done"
    /\ UNCHANGED <<chunker, dedup, extract, namer, req, transcriptChunks, chunkIndex, gptLog,
                   allDetectedClipsFromChunks, uniqueClips, userDesiredCount,
                   currentCandidates, tempClips, currentSplitAttempts, lastSplit,
                   lastEndTime, finalSelectedClips, cutIndex, cutLog,
                   clipsWithDownloadUrls>>

\* variant of RejectNoVideo that does not wait for the transcript test
RejectNoVideoFirst ==
    /\ pc = "received"
    /\ ~req.videoFileExists
    /\ response' = Respond(404, <<>>)
    /\ pc' = "done"
    /\ UNCHANGED <<chunker, dedup, extract, namer, req, transcriptChunks, chunkIndex, gptLog,
                   allDetectedClipsFromChunks, uniqueClips, userDesiredCount,
                   currentCandidates, tempClips, currentSplitAttempts, lastSplit,
                   lastEndTime, finalSelectedClips, cutIndex, cutLog,
                   clipsWithDownloadUrls>>

\* originalVideoTempPath is absent or names no file: 404
RejectNoVideo ==
    /\ pc = "received"
    /\ req.hasText
    /\ ~req.videoFileExists
    /\ response' = Respond(404, <<>>)
    /\ pc' = "done"
    /\ UNCHANGED <<chunker, dedup, extract, namer, req, transcriptChunks, chunkIndex, gptLog,
                   allDetectedClipsFromChunks, uniqueClips, userDesiredCount,
                   currentCandidates, tempClips, currentSplitAttempts, lastSplit,
                   lastEndTime, finalSelectedClips, cutIndex, cutLog,
                   clipsWithDownloadUrls>>

\* the transcript is chunked and the loop over the chunks is entered
StartChunks ==
    /\ pc = "received"
    /\ req.hasText
    /\ req.videoFileExists
    /\ transcriptChunks' = chunkSegments(req.segments, Sec(180), Sec(20))
    /\ allDetectedClipsFromChunks' = <<>>
    /\ chunkIndex' = 1
    /\ pc' = "chunks"
    /\ UNCHANGED <<chunker, dedup, extract, namer, req, gptLog, uniqueClips, userDesiredCount,
                   currentCandidates, tempClips, currentSplitAttempts, lastSplit,
                   lastEndTime, finalSelectedClips, cutIndex, cutLog,
                   clipsWithDownloadUrls, response>>

\* the completion call for the current chunk returns some output, which is
\* parsed, filtered and pushed
CompletionReturns ==
    /\ pc = "chunks"
    /\ chunkIndex <= Len(transcriptChunks)
    /\ \E rawChunkOutput \in RawChunkOutputs :
          allDetectedClipsFromChunks' =
              allDetectedClipsFromChunks
                  \o ExtractedClips(rawChunkOutput, transcriptChunks[chunkIndex], req)
    /\ gptLog' = Append(gptLog, [chunk |-> chunkIndex, ok |-> TRUE])
    /\ chunkIndex' = chunkIndex + 1
    /\ UNCHANGED <<chunker, dedup, extract, namer, pc, req, transcriptChunks, uniqueClips,
                   userDesiredCount, currentCandidates, tempClips,
                   currentSplitAttempts, lastSplit, lastEndTime, finalSelectedClips,
                   cutIndex, cutLog, clipsWithDownloadUrls, response>>

\* variant of CompletionFails without the inner catch: the outer catch answers
\* 500 (sensitivity of C10)
CompletionFailsAborts ==
    /\ pc = "chunks"
    /\ chunkIndex <= Len(transcriptChunks)
    /\ gptLog' = Append(gptLog, [chunk |-> chunkIndex, ok |-> FALSE])
    /\ response' = Respond(500, <<>>)
    /\ pc' = "done"
    /\ UNCHANGED <<chunker, dedup, extract, namer, req, transcriptChunks, chunkIndex,
                   allDetectedClipsFromChunks, uniqueClips, userDesiredCount,
                   currentCandidates, tempClips, currentSplitAttempts, lastSplit,
                   lastEndTime, finalSelectedClips, cutIndex, cutLog,
                   clipsWithDownloadUrls>>

\* the completion call for the current chunk fails or times out: the inner
\* catch logs it and the loop goes on
CompletionFails ==
    /\ pc = "chunks"
    /\ chunkIndex <= Len(transcriptChunks)
    /\ gptLog' = Append(gptLog, [chunk |-> chunkIndex, ok |-> FALSE])
    /\ chunkIndex' = chunkIndex + 1
    /\ UNCHANGED <<chunker, dedup, extract, namer, pc, req, transcriptChunks,
                   allDetectedClipsFromChunks, uniqueClips, userDesiredCount,
                   currentCandidates, tempClips, currentSplitAttempts, lastSplit,
                   lastEndTime, finalSelectedClips, cutIndex, cutLog,
                   clipsWithDownloadUrls, response>>

\* variant of Branch whose fill branch does not require a candidate
\* (sensitivity of C9)
BranchFillsFromNothing(desired, candidates) ==
    IF desired > 0 /\ candidates >= desired THEN "take"
    ELSE IF desired > 0 /\ candidates < desired THEN "fill"
    ELSE IF desired > 0 /\ candidates = 0 THEN "none"
    ELSE "all"

\* variant of Branch that selects nothing for a desired count of 0
BranchZeroSelectsNone(desired, candidates) ==
    IF desired > 0 /\ candidates >= desired THEN "take"
    ELSE IF desired > 0 /\ candidates < desired /\ candidates > 0 THEN "fill"
    ELSE "none"

\* the branch of the if / else-if chain on userDesiredCount and the number
\* of candidates
Branch(desired, candidates) ==
    IF desired > 0 /\ candidates >= desired THEN "take"
    ELSE IF desired > 0 /\ candidates < desired /\ candidates > 0 THEN "fill"
    ELSE IF desired > 0 /\ candidates = 0 THEN "none"
    ELSE "all"

\* after the last chunk: dedup, sort, desired count, duration filter and the
\* choice of branch
Select ==
    /\ pc = "chunks"
    /\ chunkIndex > Len(transcriptChunks)
    /\ uniqueClips' = DedupeClips(allDetectedClipsFromChunks)
    /\ userDesiredCount' = UserDesiredCount(req, uniqueClips')
    /\ currentCandidates' = DurationFilter(uniqueClips', req)
    /\ LET branch == Branch(userDesiredCount', Len(currentCandidates'))
       IN  /\ finalSelectedClips' =
                 IF branch = "take" THEN SliceTo(currentCandidates', userDesiredCount')
                 ELSE IF branch = "all" THEN currentCandidates'
                 ELSE <<>>
           /\ tempClips' = IF branch = "fill" THEN currentCandidates' ELSE tempClips
           /\ pc' = IF branch = "fill" THEN "split" ELSE "filter"
    /\ currentSplitAttempts' = 0
    /\ UNCHANGED <<chunker, dedup, extract, namer, req, transcriptChunks, chunkIndex, gptLog,
                   allDetectedClipsFromChunks, lastSplit, lastEndTime, cutIndex,
                   cutLog, clipsWithDownloadUrls, response>>

\* variant of SplitLoopRuns without the test of the list's length
\* (sensitivity of C27)
SplitLoopRunsUncounted ==
    /\ currentSplitAttempts < userDesiredCount * 3
    /\ SplittableClips(tempClips, TargetMinDuration(req)) # <<>>

\* the condition of the split loop together with its break
SplitLoopRuns ==
    /\ Len(tempClips) < userDesiredCount
    /\ currentSplitAttempts < userDesiredCount * 3
    /\ SplittableClips(tempClips, TargetMinDuration(req)) # <<>>

\* one iteration of the split loop
SplitStep ==
    /\ pc = "split"
    /\ SplitLoopRuns
    /\ LET clipToSplit == SplittableClips(tempClips, TargetMinDuration(req))[1]
       IN  /\ tempClips' = SplitOnce(tempClips, clipToSplit, TargetMinDuration(req))
           /\ lastSplit' = <<[clipToSplit |-> clipToSplit,
                              newHalves |-> NewHalves(clipToSplit, TargetMinDuration(req)),
                              before |-> tempClips]>>
    /\ currentSplitAttempts' = currentSplitAttempts + 1
    /\ UNCHANGED <<chunker, dedup, extract, namer, pc, req, transcriptChunks, chunkIndex, gptLog,
                   allDetectedClipsFromChunks, uniqueClips, userDesiredCount,
                   currentCandidates, lastEndTime, finalSelectedClips, cutIndex,
                   cutLog, clipsWithDownloadUrls, response>>

\* the split loop ends; the filler pass is entered if clips are still missing
SplitExit ==
    /\ pc = "split"
    /\ ~SplitLoopRuns
    /\ IF Len(tempClips) < userDesiredCount /\ TotalVideoDuration(req.segments) > 0
       THEN /\ lastEndTime' = IF Len(tempClips) > 0
                              THEN tempClips[Len(tempClips)].endTimeSeconds
                              ELSE IF Len(req.segments) > 0 THEN req.segments[1].start
                              ELSE 0
            /\ pc' = "filler"
       ELSE /\ lastEndTime' = lastEndTime
            /\ pc' = "truncate"
    /\ UNCHANGED <<chunker, dedup, extract, namer, req, transcriptChunks, chunkIndex, gptLog,
                   allDetectedClipsFromChunks, uniqueClips, userDesiredCount,
                   currentCandidates, tempClips, currentSplitAttempts, lastSplit,
                   finalSelectedClips, cutIndex, cutLog, clipsWithDownloadUrls,
                   response>>

FillerLoopRuns ==
    /\ Len(tempClips) < userDesiredCount
    /\ lastEndTime < TotalVideoDuration(req.segments)

\* one iteration of the filler loop, with its two breaks
FillerStep ==
    /\ pc = "filler"
    /\ FillerLoopRuns
    /\ LET filler == FillerClip(tempClips, lastEndTime, req)
       IN  IF filler = <<>>
           THEN /\ pc' = "truncate"
                /\ UNCHANGED <<tempClips, lastEndTime>>
           ELSE /\ tempClips' = tempClips \o filler
                /\ lastEndTime' = filler[1].endTimeSeconds
                /\ pc' = IF /\ lastEndTime' >= TotalVideoDuration(req.segments)
                            /\ Len(tempClips') < userDesiredCount
                         THEN "truncate"
                         ELSE "filler"
    /\ UNCHANGED <<chunker, dedup, extract, namer, req, transcriptChunks, chunkIndex, gptLog,
                   allDetectedClipsFromChunks, uniqueClips, userDesiredCount,
                   currentCandidates, currentSplitAttempts, lastSplit,
                   finalSelectedClips, cutIndex, cutLog, clipsWithDownloadUrls,
                   response>>

\* the filler loop's condition fails
FillerExit ==
    /\ pc = "filler"
    /\ ~FillerLoopRuns
    /\ pc' = "truncate"
    /\ UNCHANGED <<chunker, dedup, extract, namer, req, transcriptChunks, chunkIndex, gptLog,
                   allDetectedClipsFromChunks, uniqueClips, userDesiredCount,
                   currentCandidates, tempClips, currentSplitAttempts, lastSplit,
                   lastEndTime, finalSelectedClips, cutIndex, cutLog,
                   clipsWithDownloadUrls, response>>

\* finalSelectedClips = tempClips.slice(0, userDesiredCount)
Truncate ==
    /\ pc = "truncate"
    /\ finalSelectedClips' = SliceTo(tempClips, userDesiredCount)
    /\ pc' = "filter"
    /\ UNCHANGED <<chunker, dedup, extract, namer, req, transcriptChunks, chunkIndex, gptLog,
                   allDetectedClipsFromChunks, uniqueClips, userDesiredCount,
                   currentCandidates, tempClips, currentSplitAttempts, lastSplit,
                   lastEndTime, cutIndex, cutLog, clipsWithDownloadUrls, response>>

\* the final validity filter; the loop over the selected clips is entered
FinalValidityFilter ==
    /\ pc = "filter"
    /\ finalSelectedClips' =
          SelectSeq(finalSelectedClips,
                 LAMBDA clip : FinalFilter(clip, TotalVideoDuration(req.segments)))
    /\ cutIndex' = 1
    /\ pc' = "cut"
    /\ UNCHANGED <<chunker, dedup, extract, namer, req, transcriptChunks, chunkIndex, gptLog,
                   allDetectedClipsFromChunks, uniqueClips, userDesiredCount,
                   currentCandidates, tempClips, currentSplitAttempts, lastSplit,
                   lastEndTime, cutLog, clipsWithDownloadUrls, response>>

\* {...clip, downloadUrl}
WithDownloadUrl(clip) ==
    [f \in DOMAIN clip \cup {"downloadUrl"} |->
        IF f = "downloadUrl" THEN "url" ELSE clip[f]]

\* the cut of the current clip succeeds
CutSucceeds ==
    /\ pc = "cut"
    /\ cutIndex <= Len(finalSelectedClips)
    /\ clipsWithDownloadUrls' =
          Append(clipsWithDownloadUrls, WithDownloadUrl(finalSelectedClips[cutIndex]))
    /\ cutLog' = Append(cutLog, [clip |-> cutIndex, ok |-> TRUE])
    /\ cutIndex' = cutIndex + 1
    /\ UNCHANGED <<chunker, dedup, extract, namer, pc, req, transcriptChunks, chunkIndex, gptLog,
                   allDetectedClipsFromChunks, uniqueClips, userDesiredCount,
                   currentCandidates, tempClips, currentSplitAttempts, lastSplit,
                   lastEndTime, finalSelectedClips, response>>

\* variant of CutFails without the catch inside the loop: the outer catch
\* answers 500
CutFailsAborts ==
    /\ pc = "cut"
    /\ cutIndex <= Len(finalSelectedClips)
    /\ cutLog' = Append(cutLog, [clip |-> cutIndex, ok |-> FALSE])
    /\ response' = Respond(500, <<>>)
    /\ pc' = "done"
    /\ UNCHANGED <<chunker, dedup, extract, namer, req, transcriptChunks, chunkIndex, gptLog,
                   allDetectedClipsFromChunks, uniqueClips, userDesiredCount,
                   currentCandidates, tempClips, currentSplitAttempts, lastSplit,
                   lastEndTime, finalSelectedClips, cutIndex, clipsWithDownloadUrls>>

\* the cut of the current clip fails: the clip is skipped
CutFails ==
    /\ pc = "cut"
    /\ cutIndex <= Len(finalSelectedClips)
    /\ cutLog' = Append(cutLog, [clip |-> cutIndex, ok |-> FALSE])
    /\ cutIndex' = cutIndex + 1
    /\ UNCHANGED <<chunker, dedup, extract, namer, pc, req, transcriptChunks, chunkIndex, gptLog,
                   allDetectedClipsFromChunks, uniqueClips, userDesiredCount,
                   currentCandidates, tempClips, currentSplitAttempts, lastSplit,
                   lastEndTime, finalSelectedClips, clipsWithDownloadUrls, response>>

\* res.json({ clips: clipsWithDownloadUrls })
RespondClips ==
    /\ pc = "cut"
    /\ cutIndex > Len(finalSelectedClips)
    /\ response' = Respond(200, clipsWithDownloadUrls)
    /\ pc' = "done"
    /\ UNCHANGED <<chunker, dedup, extract, namer, req, transcriptChunks, chunkIndex, gptLog,
                   allDetectedClipsFromChunks, uniqueClips, userDesiredCount,
                   currentCandidates, tempClips, currentSplitAttempts, lastSplit,
                   lastEndTime, finalSelectedClips, cutIndex, cutLog,
                   clipsWithDownloadUrls>>

Next ==
    \/ RejectNoTranscript
    \/ RejectNoVideo
    \/ StartChunks
    \/ CompletionReturns
    \/ CompletionFails
    \/ Select
    \/ SplitStep
    \/ SplitExit
    \/ FillerStep
    \/ FillerExit
    \/ Truncate
    \/ FinalValidityFilter
    \/ CutSucceeds
    \/ CutFails
    \/ RespondClips

Spec == Init /\ [][Next]_vars

\* every split halves an even number of ticks, so that Midpoint is exact
SplitExact ==
    lastSplit # <<>> => Duration(lastSplit[1].clipToSplit) % 2 = 0

----------------------------------------------------------------------------
(* Properties of the /detect-clips handler *)

\* the handler has passed the final validity filter and sent no error
Filtered == pc = "cut" \/ (pc = "done" /\ response[1].status = 200)

\* the handler has chosen its branch and sent no error
Selected == pc \notin {"received", "chunks"} /\ (pc = "done" => response[1].status = 200)

RequestedCount == req.desiredClipCount.n

IntegerCountRequested == req.clipOption = "userChoice" /\ ~req.desiredClipCount.max

\* every segment starts at 0 or later and none ends after the last one
WithinTotalDuration(segments) ==
    \A i \in 1..Len(segments) :
        segments[i].start >= 0 /\ segments[i].end <= TotalVideoDuration(segments)

ValidClip(clip, totalVideoDuration) ==
    /\ 0 <= clip.startTimeSeconds
    /\ clip.startTimeSeconds < clip.endTimeSeconds
    /\ clip.endTimeSeconds <= totalVideoDuration
    /\ clip.endTimeSeconds - clip.startTimeSeconds >= Sec(2)

\* C7: every clip of the final selected list, and so every clip of the
\* response, lies within [0, totalVideoDuration] with start < end and lasts
\* at least 2 seconds.
C7_EmittedClipsValid ==
    Filtered =>
        /\ \A i \in 1..Len(finalSelectedClips) :
               ValidClip(finalSelectedClips[i], TotalVideoDuration(req.segments))
        /\ \A i \in 1..Len(clipsWithDownloadUrls) :
               ValidClip(clipsWithDownloadUrls[i], TotalVideoDuration(req.segments))

\* a response with both halves of a split clip and a filler clip
C7_Witness ==
    /\ pc = "done"
    /\ response[1].status = 200
    /\ Len(response[1].clips) = 3
    /\ response[1].clips[1].title = "A (Part A)"
    /\ response[1].clips[2].title = "A (Part B)"
    /\ response[1].clips[3].title = "Auto-Generated Clip 3"

\* C8: a split replaces the clip [s, e] by [s, m] and [m, e] with
\* m = s + (e - s) / 2, titled "(Part A)" and "(Part B)", with the reason
\* suffixed and the description unchanged.
C8_SplitCorrect ==
    [][lastSplit' # lastSplit =>
         LET c == lastSplit'[1].clipToSplit
             h == lastSplit'[1].newHalves
         IN  /\ Len(h) = 2
             /\ h[1].startTimeSeconds = c.startTimeSeconds
             /\ h[2].endTimeSeconds = c.endTimeSeconds
             /\ h[1].endTimeSeconds = h[2].startTimeSeconds
             /\ 2 * (h[1].endTimeSeconds - c.startTimeSeconds)
                    = c.endTimeSeconds - c.startTimeSeconds
             /\ h[1].title = c.title \o " (Part A)"
             /\ h[2].title = c.title \o " (Part B)"
             /\ h[1].reason = c.reason \o " (Split to meet count)"
             /\ h[2].reason = c.reason \o " (Split to meet count)"
             /\ h[1].description = c.description
             /\ h[2].description = c.description
             /\ c \in Range(tempClips)
             /\ Len(tempClips') = Len(tempClips) + 1
             /\ Range(tempClips') = (Range(tempClips) \ {c}) \cup {h[1], h[2]}]_vars

\* the 30 s clip A was split at 15 s and its first half split again
C8_Witness ==
    /\ lastSplit # <<>>
    /\ lastSplit[1].clipToSplit.title = "A (Part A)"
    /\ lastSplit[1].clipToSplit.startTimeSeconds = 0
    /\ lastSplit[1].clipToSplit.endTimeSeconds = Sec(15)
    /\ Len(tempClips) = 3

\* C9: with no candidate left after the duration filter, the final list is
\* empty under every policy, nothing is split or synthesized, and the
\* request is answered 200 with no clips.
C9_NothingFromNothing ==
    (Selected /\ currentCandidates = <<>>) =>
        /\ pc \in {"filter", "cut", "done"}
        /\ tempClips = <<>>
        /\ finalSelectedClips = <<>>
        /\ clipsWithDownloadUrls = <<>>
        /\ pc = "done" => response = Respond(200, <<>>)

\* three clips requested of a 60 s video, the completion call answered, no
\* candidate, and the request answered
C9_Witness ==
    /\ pc = "done"
    /\ response = Respond(200, <<>>)
    /\ req.clipOption = "userChoice"
    /\ req.desiredClipCount = [max |-> FALSE, n |-> 3]
    /\ TotalVideoDuration(req.segments) = Sec(60)
    /\ gptLog = <<[chunk |-> 1, ok |-> TRUE]>>
    /\ currentCandidates = <<>>

\* C10: a failed completion call adds no candidate, keeps those collected,
\* and the loop goes on: every chunk's call is issued, in order, and no
\* failure of a call makes the request end in an error.
C10_FailureIsolated ==
    /\ [][(gptLog' # gptLog /\ ~gptLog'[Len(gptLog')].ok) =>
            /\ allDetectedClipsFromChunks' = allDetectedClipsFromChunks
            /\ chunkIndex' = chunkIndex + 1
            /\ pc' = "chunks"]_vars
    /\ [](/\ \A i \in 1..Len(gptLog) : gptLog[i].chunk = i
          /\ pc \notin {"received", "chunks"} /\ req.hasText /\ req.videoFileExists
                => Len(gptLog) = Len(transcriptChunks)
          /\ (pc = "done" /\ gptLog # <<>>) => response[1].status = 200)

\* the second of three calls failed; the clips of the first and the third
\* chunk were collected and the request was answered
C10_Witness ==
    /\ pc = "done"
    /\ response[1].status = 200
    /\ gptLog = <<[chunk |-> 1, ok |-> TRUE], [chunk |-> 2, ok |-> FALSE],
                  [chunk |-> 3, ok |-> TRUE]>>
    /\ allDetectedClipsFromChunks = <<Clip("A", 0, 30), Clip("F", 400, 430)>>

\* the clip as it is in the response: every field of the selected clip and
\* a downloadUrl
Carries(sent, clip) ==
    /\ DOMAIN sent = DOMAIN clip \cup {"downloadUrl"}
    /\ \A f \in DOMAIN clip : sent[f] = clip[f]

\* the indices of the selected clips whose cut succeeded, in order
SucceededCuts ==
    SelectSeq([i \in 1..Len(cutLog) |-> i], LAMBDA i : cutLog[i].ok)

\* C14: the cuts are attempted once each in list order; a failed cut adds
\* nothing and the loop goes on with the next clip; the response holds
\* exactly the selected clips whose cut succeeded, in order, each with a
\* downloadUrl; and the request is answered 200 whatever cuts fail.
C14_CutFailureTolerated ==
    /\ [][(cutLog' # cutLog /\ ~cutLog'[Len(cutLog')].ok) =>
            /\ clipsWithDownloadUrls' = clipsWithDownloadUrls
            /\ cutIndex' = cutIndex + 1
            /\ pc' = "cut"]_vars
    /\ [](/\ \A i \in 1..Len(cutLog) : cutLog[i].clip = i
          /\ Len(cutLog) <= Len(finalSelectedClips)
          /\ (pc = "done" /\ cutLog # <<>>) => response[1].status = 200
          /\ (pc = "done" /\ response[1].status = 200) =>
                /\ Len(cutLog) = Len(finalSelectedClips)
                /\ Len(response[1].clips) = Len(SucceededCuts)
                /\ \A k \in 1..Len(SucceededCuts) :
                       Carries(response[1].clips[k], finalSelectedClips[SucceededCuts[k]]))

\* of three selected clips the first and the third cut failed: the response
\* holds the second alone
C14_Witness ==
    /\ pc = "done"
    /\ response[1].status = 200
    /\ Len(finalSelectedClips) = 3
    /\ cutLog = <<[clip |-> 1, ok |-> FALSE], [clip |-> 2, ok |-> TRUE],
                  [clip |-> 3, ok |-> FALSE]>>
    /\ Len(response[1].clips) = 1
    /\ Carries(response[1].clips[1], finalSelectedClips[2])

\* the order of the handler's positions
Rank(position) ==
    CASE position = "received" -> 0
      [] position = "chunks" -> 1
      [] position = "split" -> 2
      [] position = "filler" -> 3
      [] position = "truncate" -> 4
      [] position = "filter" -> 5
      [] position = "cut" -> 6
      [] position = "done" -> 7

\* a step the handler can take from where it is: each awaited call settles
\* (the completion call has a timeout, the cutter ends with or without an
\* error), and a loop either runs its body or exits
CanStep ==
    \/ ENABLED RejectNoTranscript
    \/ ENABLED RejectNoVideo
    \/ pc = "received" /\ req.hasText /\ req.videoFileExists
    \/ ENABLED CompletionFails
    \/ pc = "chunks" /\ chunkIndex > Len(transcriptChunks)
    \/ pc = "split"
    \/ pc = "filler" /\ FillerLoopRuns
    \/ ENABLED FillerExit
    \/ ENABLED Truncate
    \/ ENABLED FinalValidityFilter
    \/ ENABLED CutFails
    \/ ENABLED RespondClips

\* C15: without transcript text the request is answered 400; with text but
\* without an existing source video it is answered 404; in both cases no
\* completion call and no cut is issued; and every request is answered, once,
\* with 400, 404, 200 or 500: the response is written once, the handler can
\* always take a step until it has answered, and every step moves it forward
\* in a loop that is bounded or on to a later position.
C15_FailFast ==
    /\ [](pc = "done" =>
            /\ ~req.hasText => response[1].status = 400
            /\ (req.hasText /\ ~req.videoFileExists) => response[1].status = 404)
    /\ []((~req.hasText \/ ~req.videoFileExists) =>
            /\ gptLog = <<>> /\ cutLog = <<>>
            /\ pc \in {"received", "done"})
    /\ [][response' # response =>
            /\ response = <<>>
            /\ Len(response') = 1
            /\ response'[1].status \in {400, 404, 200, 500}
            /\ pc' = "done"]_vars
    /\ [](/\ pc = "done" <=> Len(response) = 1
          /\ pc # "done" => CanStep
          /\ pc = "chunks" => chunkIndex <= Len(transcriptChunks) + 1
          /\ pc \in {"split", "filler"} => Len(tempClips) <= userDesiredCount
          /\ pc = "cut" => cutIndex <= Len(finalSelectedClips) + 1)
    /\ [][\/ Rank(pc') > Rank(pc)
          \/ pc' = "chunks" /\ chunkIndex' > chunkIndex
          \/ pc' \in {"split", "filler"} /\ Len(tempClips') > Len(tempClips)
          \/ pc' = "cut" /\ cutIndex' > cutIndex]_vars

\* a request with neither transcript text nor source video, answered 400
C15_Witness ==
    /\ pc = "done"
    /\ ~req.hasText
    /\ ~req.videoFileExists
    /\ response = Respond(400, <<>>)
    /\ gptLog = <<>>
    /\ cutLog = <<>>

SortedByStart(clips) ==
    \A i \in 1..(Len(clips) - 1) : clips[i].startTimeSeconds <= clips[i + 1].startTimeSeconds

\* the selected clips that lie within the clip's span cover it: its start,
\* and every end of one of them before its end, is inside one of them
SpanKept(clip, selected) ==
    LET inside == {i \in 1..Len(selected) :
                     /\ clip.startTimeSeconds <= selected[i].startTimeSeconds
                     /\ selected[i].endTimeSeconds <= clip.endTimeSeconds}
    IN  \A t \in {clip.startTimeSeconds} \cup {selected[i].endTimeSeconds : i \in inside} :
            t < clip.endTimeSeconds =>
                \E i \in inside : /\ selected[i].startTimeSeconds <= t
                                  /\ t < selected[i].endTimeSeconds

Shortfall ==
    /\ IntegerCountRequested
    /\ 0 < Len(currentCandidates)
    /\ Len(currentCandidates) < RequestedCount

\* C17 as stated: with userChoice, a requested integer N and k filtered
\* candidates, 0 < k < N, the request does not fail and the final list has
\* between k and N clips, as many as the split and filler passes made
\* available up to N, and the span of every candidate is still in it.
C17_ShortfallAsStated ==
    (Filtered /\ Shortfall) =>
        /\ Len(currentCandidates) <= Len(finalSelectedClips)
        /\ Len(finalSelectedClips) <= RequestedCount
        /\ Len(finalSelectedClips) = Min(RequestedCount, Len(tempClips))
        /\ \A i \in 1..Len(currentCandidates) :
               SpanKept(currentCandidates[i], finalSelectedClips)
        /\ pc = "done" => response[1].status = 200

\* C17 (amended): the same, for a transcript in which no segment starts
\* before 0 or ends after the last segment does.
C17_Shortfall ==
    (Filtered /\ Shortfall /\ WithinTotalDuration(req.segments)) =>
        /\ Len(currentCandidates) <= Len(finalSelectedClips)
        /\ Len(finalSelectedClips) <= RequestedCount
        /\ Len(finalSelectedClips) = Min(RequestedCount, Len(tempClips))
        /\ \A i \in 1..Len(currentCandidates) :
               SpanKept(currentCandidates[i], finalSelectedClips)
        /\ pc = "done" => response[1].status = 200

\* three clips requested and two candidates found: one was split, and the
\* request was answered with three clips
C17_Witness ==
    /\ pc = "done"
    /\ Shortfall
    /\ WithinTotalDuration(req.segments)
    /\ RequestedCount = 3
    /\ Len(currentCandidates) = 2
    /\ lastSplit # <<>>
    /\ Len(finalSelectedClips) = 3
    /\ Len(response[1].clips) = 3

C20_TimeSorted ==
    /\ Selected => SortedByStart(uniqueClips) /\ SortedByStart(tempClips)
    /\ Filtered => SortedByStart(finalSelectedClips) /\ SortedByStart(clipsWithDownloadUrls)
    /\ (pc = "done" /\ response[1].status = 200) => SortedByStart(response[1].clips)

\* the model proposed a later clip before an earlier one; a clip was split,
\* one cut failed, and the response holds the other clips
C20_Witness ==
    /\ pc = "done"
    /\ response[1].status = 200
    /\ Len(allDetectedClipsFromChunks) >= 2
    /\ allDetectedClipsFromChunks[1].startTimeSeconds
           > allDetectedClipsFromChunks[2].startTimeSeconds
    /\ lastSplit # <<>>
    /\ Len(finalSelectedClips) = 3
    /\ \E i \in 1..Len(cutLog) : ~cutLog[i].ok
    /\ Len(response[1].clips) >= 2

----------------------------------------------------------------------------
(* The split and filler passes, the duration bounds and the final filter *)

\* a clip that the split pass may split: at least 1.5 x targetMinDuration long
LongEnoughToSplit(clip) == 2 * Duration(clip) >= 3 * BoundsMin(req)

\* one of the three conditions under which the split pass is over
StopsSplitting ==
    \/ Len(tempClips) >= userDesiredCount
    \/ \A i \in 1..Len(tempClips) : ~LongEnoughToSplit(tempClips[i])
    \/ currentSplitAttempts >= 3 * userDesiredCount

\* C23: each iteration of the split pass splits a clip that is at least
\* 1.5 x targetMinDuration long and as long as any clip of the working list,
\* the list is in ascending order of start after the iteration, and the pass
\* stops exactly when the list has userDesiredCount clips, no clip can be
\* split, or 3 x userDesiredCount attempts were made.
C23_SplitSelection ==
    [][pc = "split" =>
          /\ (pc' # "split") <=> StopsSplitting
          /\ pc' = "split" =>
                /\ lastSplit' # lastSplit
                /\ LET c == lastSplit'[1].clipToSplit
                   IN  /\ c \in Range(tempClips)
                       /\ LongEnoughToSplit(c)
                       /\ \A i \in 1..Len(tempClips) :
                              Duration(tempClips[i]) <= Duration(c)
                       /\ c \notin Range(tempClips')
                       /\ Range(lastSplit'[1].newHalves) \subseteq Range(tempClips')
                /\ SortedByStart(tempClips')]_vars

\* the clip split was strictly longer than a clip that starts before it and
\* could have been split as well
C23_Witness ==
    /\ lastSplit # <<>>
    /\ \E i \in 1..Len(lastSplit[1].before) :
          LET other == lastSplit[1].before[i]
          IN  /\ LongEnoughToSplit(other)
              /\ other.startTimeSeconds < lastSplit[1].clipToSplit.startTimeSeconds
              /\ Duration(other) < Duration(lastSplit[1].clipToSplit)

IsFiller(clip) == clip.reason = "Automatically generated to meet user's clip count request."

\* C24 as stated: with a desiredClipDuration, no filler clip lasts longer
C24_FillerDurationAsStated ==
    \A i \in 1..Len(tempClips) :
        (IsFiller(tempClips[i]) /\ req.desiredClipDuration.given)
            => Duration(tempClips[i]) <= req.desiredClipDuration.value

\* C24 (amended): a filler clip built from lastEndTime L, the end of the clip
\* before it in the list, with a desiredClipDuration D starts inside its
\* window [L, W), where W = min(L + D, totalVideoDuration) is at most D after
\* L, and ends at the end of the first segment that ends at or after W, which
\* can be later than L + D; without a desiredClipDuration it spans L to
\* totalVideoDuration.
C24_FillerWindow ==
    \A i \in 2..Len(tempClips) :
        IsFiller(tempClips[i]) =>
            LET L == tempClips[i - 1].endTimeSeconds
                segments == req.segments
                total == segments[Len(segments)].end
                F == tempClips[i]
                W == IF L + req.desiredClipDuration.value < total
                     THEN L + req.desiredClipDuration.value ELSE total
            IN  IF req.desiredClipDuration.given
                THEN /\ L <= F.startTimeSeconds
                     /\ F.startTimeSeconds < W
                     /\ W <= F.endTimeSeconds
                     /\ W - F.startTimeSeconds <= req.desiredClipDuration.value
                     /\ \E k \in 1..Len(segments) :
                           /\ F.endTimeSeconds = segments[k].end
                           /\ segments[k].end >= W
                           /\ \A j \in 1..(k - 1) : segments[j].end < W
                ELSE /\ F.startTimeSeconds = L
                     /\ F.endTimeSeconds = total

\* a response that carries a filler clip longer than the desiredClipDuration
C24_Witness ==
    /\ pc = "done"
    /\ response[1].status = 200
    /\ req.desiredClipDuration.given
    /\ \E k \in 1..Len(response[1].clips) :
          /\ IsFiller(response[1].clips[k])
          /\ Duration(response[1].clips[k]) > req.desiredClipDuration.value

\* C25 as stated: every clip that passed the final filter lasts between
\* targetMinDuration and targetMaxDuration, and at least 2 s.
C25_FinalDurationBoundsAsStated ==
    Filtered =>
        \A i \in 1..Len(finalSelectedClips) :
            /\ BoundsMin(req) <= Duration(finalSelectedClips[i])
            /\ Duration(finalSelectedClips[i]) <= BoundsMax(req)
            /\ Duration(finalSelectedClips[i]) >= Sec(2)

\* C25 (amended): every clip that passed the final filter lasts at least 2 s
\* and at least targetMinDuration / 2; a candidate taken unchanged lasts
\* between targetMinDuration and targetMaxDuration, a split half at least
\* 0.75 x targetMinDuration and at most targetMaxDuration / 2; a filler has no
\* upper bound but the video's end.
C25_FinalDurations ==
    Filtered =>
        \A i \in 1..Len(finalSelectedClips) :
            LET clip == finalSelectedClips[i]
            IN  /\ Duration(clip) >= Sec(2)
                /\ 2 * Duration(clip) >= BoundsMin(req)
                /\ clip \in Range(currentCandidates) =>
                       /\ BoundsMin(req) <= Duration(clip)
                       /\ Duration(clip) <= BoundsMax(req)
                /\ (clip \notin Range(currentCandidates) /\ ~IsFiller(clip)) =>
                       /\ 4 * Duration(clip) >= 3 * BoundsMin(req)
                       /\ 2 * Duration(clip) <= BoundsMax(req)
                /\ IsFiller(clip) =>
                       clip.endTimeSeconds <= req.segments[Len(req.segments)].end

\* a response that carries a split half shorter than targetMinDuration
C25_Witness ==
    /\ pc = "done"
    /\ response[1].status = 200
    /\ \E k \in 1..Len(response[1].clips) :
          /\ ~IsFiller(response[1].clips[k])
          /\ Duration(response[1].clips[k]) < BoundsMin(req)

\* C26: the duration filter applied before selection removes no clip, so
\* currentCandidates is uniqueClips, and the userDesiredCount of 'max' and of
\* aiPick, computed from uniqueClips.length, never exceeds the number of
\* candidates.
C26_RefilterKeepsAll ==
    Selected =>
        /\ currentCandidates = uniqueClips
        /\ (req.clipOption # "userChoice" \/ req.desiredClipCount.max)
               => userDesiredCount <= Len(currentCandidates)

\* 'max' with a desiredClipDuration and three unique clips: all three are
\* candidates
C26_Witness ==
    /\ pc = "filter"
    /\ req.clipOption = "userChoice"
    /\ req.desiredClipCount.max
    /\ req.desiredClipDuration.given
    /\ Len(uniqueClips) = 3
    /\ userDesiredCount = 3
    /\ Len(currentCandidates) = 3

\* C27: every iteration of the split pass keeps both halves and makes the
\* list one clip longer; from k candidates the pass makes at most
\* userDesiredCount - k attempts, fewer than 3 x userDesiredCount; the list
\* never holds more than userDesiredCount clips, so the final slice removes
\* nothing.
C27_SplitBudget ==
    /\ [][lastSplit' # lastSplit =>
             /\ Len(lastSplit'[1].newHalves) = 2
             /\ 4 * Duration(lastSplit'[1].newHalves[1]) >= 3 * BoundsMin(req)
             /\ 4 * Duration(lastSplit'[1].newHalves[2]) >= 3 * BoundsMin(req)
             /\ Len(tempClips') = Len(tempClips) + 1
             /\ currentSplitAttempts' = currentSplitAttempts + 1]_vars
    /\ [](pc \in {"split", "filler", "truncate"} =>
             /\ currentSplitAttempts <= userDesiredCount - Len(currentCandidates)
             /\ currentSplitAttempts < 3 * userDesiredCount
             /\ Len(tempClips) <= userDesiredCount)
    /\ [][pc = "truncate" /\ pc' # pc => finalSelectedClips' = tempClips]_vars

\* one candidate and a desired count of three: two splits, then the slice
C27_Witness ==
    /\ pc = "filter"
    /\ Len(currentCandidates) = 1
    /\ userDesiredCount = 3
    /\ currentSplitAttempts = 2
    /\ Len(tempClips) = 3
    /\ finalSelectedClips = tempClips

\* C28: for every numeric desiredClipDuration the handler takes,
\* targetMinDuration <= targetMaxDuration.
C28_BoundsOrdered ==
    req.desiredClipDuration.given => TargetMinDuration(req) <= TargetMaxDuration(req)

\* C30: every filler clip starts at or after the end of every clip that is
\* before it in the working list.
C30_FillerAfterAllClips ==
    \A j \in 1..Len(tempClips) :
        IsFiller(tempClips[j]) =>
            \A i \in 1..(j - 1) :
                tempClips[j].startTimeSeconds >= tempClips[i].endTimeSeconds

====
